---- MODULE Spec2Model ----
(***************************************************************************)
(* PledgePulse dashboard: the loader (data_processing.py,                   *)
(* load_and_preprocess_data), the metric/figure builder                     *)
(* (create_visualizations) and the Dash shell (app.py: module start-up,     *)
(* update_graphs, process_llm_input).                                       *)
(*                                                                          *)
(* Values.  A JSON scalar of an identifier or date field is a pair          *)
(* <<kind, text>> with kind in "absent" (key not in the record), "null",    *)
(* "int" (a JSON number, text its decimal digits) and "str".  A numeric     *)
(* cell is <<>> (null / NaN) or <<n>>.  A timestamp cell is <<>> (NaT) or   *)
(* <<[year, month, day]>>.  A float produced by a division is <<"nan">>,    *)
(* <<"inf">>, <<"-inf">> or <<"num", n, d>>, the fraction n/d in lowest     *)
(* terms with d > 0.                                                        *)
(***************************************************************************)
EXTENDS Integers, Sequences, FiniteSets, TLC

VARIABLES pledges_json, payments_json, pc, df, load_error, pledge_date_column,
          selected, trend_graph, distribution_graph, rate_graph, scatter_graph,
          by_year_graph, combined_graph, rowData, llm_output, pending

vars == <<pledges_json, payments_json, pc, df, load_error, pledge_date_column,
          selected, trend_graph, distribution_graph, rate_graph, scatter_graph,
          by_year_graph, combined_graph, rowData, llm_output, pending>>

inputs == <<pledges_json, payments_json>>
display == <<selected, trend_graph, distribution_graph, rate_graph, scatter_graph,
             by_year_graph, combined_graph, rowData, llm_output>>

\* Longest pledge and payment documents drawn as inputs.
MaxPledges == 2
MaxPayments == 2

(***************************************************************************)
(* Generic helpers                                                          *)
(***************************************************************************)
NA == <<>>
Some(x) == <<x>>

Absent == <<"absent", "">>
JNull == <<"null", "">>
JInt(t) == <<"int", t>>
JStr(t) == <<"str", t>>
Missing(cell) == cell[1] \in {"absent", "null"}

RECURSIVE SumSeq(_)
SumSeq(s) == IF s = <<>> THEN 0 ELSE Head(s) + SumSeq(Tail(s))

Abs(n) == IF n < 0 THEN -n ELSE n

RECURSIVE GCD(_, _)
GCD(a, b) == IF b = 0 THEN a ELSE GCD(b, a % b)

\* The elements of a finite set of integers as an ascending sequence.
RECURSIVE SortedSeq(_)
SortedSeq(S) ==
    IF S = {} THEN <<>>
    ELSE LET m == CHOOSE x \in S : \A y \in S : x <= y
         IN  <<m>> \o SortedSeq(S \ {m})

Range(s) == {s[i] : i \in 1..Len(s)}

(***************************************************************************)
(* Timestamps.  Calendar is what the date parser makes of the date strings  *)
(* that occur in the inputs; any other string does not parse.               *)
(***************************************************************************)
Calendar ==
    [t \in {"2022-12-10", "2023-01-15", "2023-02-01", "2023-03-05"} |->
        CASE t = "2022-12-10" -> [year |-> 2022, month |-> 12, day |-> 10]
          [] t = "2023-01-15" -> [year |-> 2023, month |-> 1, day |-> 15]
          [] t = "2023-02-01" -> [year |-> 2023, month |-> 2, day |-> 1]
          [] t = "2023-03-05" -> [year |-> 2023, month |-> 3, day |-> 5]]

Parses(text) == text \in DOMAIN Calendar

\* pd.to_datetime(..., errors='coerce') of one string
ToDatetimeCoerce(text) == IF Parses(text) THEN Some(Calendar[text]) ELSE NA

\* Series.dt.year of one cell: NaT gives NaN
DtYearMonthBug(ts) == IF ts = NA THEN NA ELSE Some(ts[1].month)
DtYear(ts) == IF ts = NA THEN NA ELSE Some(ts[1].year)

\* Series.dt.to_period('M') of a non-NaT cell, as months since year 0
ToPeriodM(ts) == ts[1].year * 12 + (ts[1].month - 1)

\* Period.to_timestamp(): the first day of the month
PeriodToTimestamp(p) == [year |-> p \div 12, month |-> (p % 12) + 1, day |-> 1]

(***************************************************************************)
(* pd.read_json: the columns of the frame and the automatic conversion of   *)
(* date-like columns (names ending in _at, or "date")                       *)
(***************************************************************************)
DateCols == <<"pledge_created_at", "pledge_starts_at", "pledge_ended_at">>

\* A key is a column of the frame when some record carries it.
PledgeColumns(doc) ==
    IF doc = <<>> THEN {}
    ELSE {"pledge_id", "contribution_amount"} \cup
         {DateCols[k] : k \in {j \in 1..3 : \E i \in 1..Len(doc) : doc[i][DateCols[j]] # Absent}}

\* read_json turns a date-like column into datetime64 only when every value
\* present parses; otherwise the column stays an object column.
IsDatetimeColumn(doc, col) ==
    \A i \in 1..Len(doc) : Missing(doc[i][col]) \/ Parses(doc[i][col][2])

\* One cell of a datetime64 column
DatetimeCell(cell) == IF Missing(cell) THEN NA ELSE ToDatetimeCoerce(cell[2])

(***************************************************************************)
(* load_and_preprocess_data                                                 *)
(***************************************************************************)
NoColumn == "none"

SelectDateColumnSwapped(cols) ==
    IF "pledge_starts_at" \in cols THEN "pledge_starts_at"
    ELSE IF "pledge_created_at" \in cols THEN "pledge_created_at"
    ELSE IF "pledge_ended_at" \in cols THEN "pledge_ended_at"
    ELSE NoColumn
SelectDateColumn(cols) ==
    IF "pledge_created_at" \in cols THEN "pledge_created_at"
    ELSE IF "pledge_starts_at" \in cols THEN "pledge_starts_at"
    ELSE IF "pledge_ended_at" \in cols THEN "pledge_ended_at"
    ELSE NoColumn

\* dtype pandas gives an identifier column: all numbers -> int64, numbers and
\* nulls -> float64, anything else -> object.
IdDtype(doc) ==
    IF \A i \in 1..Len(doc) : doc[i].pledge_id[1] \in {"int", "null"}
    THEN IF \E i \in 1..Len(doc) : doc[i].pledge_id[1] = "null" THEN "float64" ELSE "int64"
    ELSE "object"

\* astype(str) of one non-null identifier
AsTypeStr(cell, dtype) ==
    IF cell[1] = "int" /\ dtype = "float64" THEN cell[2] \o ".0" ELSE cell[2]

\* The pledge frame after renaming, year derivation, coercions, dropna and astype(str)
CleanPledges(doc, col) ==
    LET kept == SelectSeq(doc, LAMBDA r : r.pledge_id[1] # "null")
    IN  [i \in 1..Len(kept) |->
            LET ts == DatetimeCell(kept[i][col])
            IN  [pledge_id |-> AsTypeStr(kept[i].pledge_id, IdDtype(doc)),
                 pledge_date |-> ts,
                 year |-> DtYear(ts),
                 contribution_amount |-> kept[i].contribution_amount]]

\* astype(str) then to_datetime(errors='coerce') of a payment date: a null
\* prints as "None" (or "NaT"), which like any other non-date string gives NaT.
PaymentDate(cell) == ToDatetimeCoerce(IF cell[1] = "null" THEN "None" ELSE cell[2])

CleanPayments(doc) ==
    LET kept == SelectSeq(doc, LAMBDA r : r.pledge_id[1] # "null")
    IN  [i \in 1..Len(kept) |->
            [pledge_id |-> AsTypeStr(kept[i].pledge_id, IdDtype(doc)),
             date |-> PaymentDate(kept[i].date),
             amount |-> kept[i].amount]]

JoinRow(p, date, amount) ==
    [pledge_id |-> p.pledge_id, pledge_date |-> p.pledge_date, year |-> p.year,
     contribution_amount |-> p.contribution_amount, date |-> date, amount |-> amount]

\* One left row of pd.merge(how='left'): a row per matching right row, in the
\* right frame's order, or one row with missing payment fields.
LeftExpandInner(p, right) ==
    LET m == SelectSeq(right, LAMBDA q : q.pledge_id = p.pledge_id)
    IN  [j \in 1..Len(m) |-> JoinRow(p, m[j].date, m[j].amount)]
LeftExpand(p, right) ==
    LET m == SelectSeq(right, LAMBDA q : q.pledge_id = p.pledge_id)
    IN  IF m = <<>> THEN <<JoinRow(p, NA, NA)>>
        ELSE [j \in 1..Len(m) |-> JoinRow(p, m[j].date, m[j].amount)]

RECURSIVE Merge(_, _)
Merge(left, right) ==
    IF left = <<>> THEN <<>>
    ELSE LeftExpand(Head(left), right) \o Merge(Tail(left), right)

\* The outcome of the whole function: the joined table, or the exception that
\* the except clause prints and re-raises.
LoadResult(pledges, payments) ==
    LET col == SelectDateColumn(PledgeColumns(pledges))
    IN  IF col = NoColumn
        THEN [ok |-> FALSE, column |-> NoColumn, table |-> <<>>,
              error |-> "ValueError: No suitable pledge date column found"]
        ELSE IF ~IsDatetimeColumn(pledges, col)
        THEN [ok |-> FALSE, column |-> col, table |-> <<>>,
              error |-> "AttributeError: Can only use .dt accessor with datetimelike values"]
        ELSE IF payments = <<>>
        THEN [ok |-> FALSE, column |-> col, table |-> <<>>,
              error |-> "KeyError: 'date'"]
        ELSE [ok |-> TRUE, column |-> col,
              table |-> Merge(CleanPledges(pledges, col), CleanPayments(payments)),
              error |-> ""]

(***************************************************************************)
(* Float arithmetic on the sums (exact: the sums are small integers)        *)
(***************************************************************************)
Frac(n, d) ==
    LET g == GCD(Abs(n), Abs(d))
        s == IF d < 0 THEN -1 ELSE 1
    IN  <<"num", (s * n) \div g, (s * d) \div g>>

Zero == <<"num", 0, 1>>

\* a / b on float64 values holding the integers a and b
FloatDiv(a, b) ==
    IF b = 0
    THEN IF a = 0 THEN <<"nan">> ELSE IF a > 0 THEN <<"inf">> ELSE <<"-inf">>
    ELSE Frac(a, b)

\* f * 100
Times100(f) == IF f[1] = "num" THEN Frac(100 * f[2], f[3]) ELSE f

\* round(n / d) to the nearest integer, ties to even (numpy's rint)
RoundHalfEven(n, d) ==
    LET q == n \div d
        r == n % d
    IN  IF 2 * r < d THEN q
        ELSE IF 2 * r > d THEN q + 1
        ELSE IF q % 2 = 0 THEN q ELSE q + 1

\* Series.round(2)
Round2(f) == IF f[1] = "num" THEN Frac(RoundHalfEven(100 * f[2], f[3]), 100) ELSE f

(***************************************************************************)
(* Column aggregates of a group of joined rows (NaN skipped)                *)
(***************************************************************************)
ColumnSum(rows, col) ==
    SumSeq([i \in 1..Len(rows) |-> IF rows[i][col] = NA THEN 0 ELSE rows[i][col][1]])

ColumnCount(rows, col) == Len(SelectSeq(rows, LAMBDA r : r[col] # NA))

ColumnMean(rows, col) == FloatDiv(ColumnSum(rows, col), ColumnCount(rows, col))

\* The rows of one calendar month / of one year; NaT and NaN keys form no group.
MonthGroup(rows, p) ==
    SelectSeq(rows, LAMBDA r : r.pledge_date # NA /\ ToPeriodM(r.pledge_date) = p)
YearGroup(rows, y) == SelectSeq(rows, LAMBDA r : r.year = Some(y))

Periods(rows) ==
    SortedSeq({ToPeriodM(rows[i].pledge_date) : i \in {j \in 1..Len(rows) : rows[j].pledge_date # NA}})
Years(rows) ==
    SortedSeq({rows[i].year[1] : i \in {j \in 1..Len(rows) : rows[j].year # NA}})

(***************************************************************************)
(* create_visualizations                                                    *)
(***************************************************************************)
\* 1. pledges_over_time
PledgesOverTime(rows) ==
    LET ps == Periods(rows)
    IN  [k \in 1..Len(ps) |->
            [pledge_date |-> PeriodToTimestamp(ps[k]),
             contribution_amount |-> ColumnSum(MonthGroup(rows, ps[k]), "contribution_amount")]]

\* 3. monthly_data with its fulfillment_rate column
MonthlyRate(amount, contribution) == Times100(FloatDiv(amount, contribution))

MonthlyData(rows) ==
    LET ps == Periods(rows)
    IN  [k \in 1..Len(ps) |->
            LET g == MonthGroup(rows, ps[k])
                c == ColumnSum(g, "contribution_amount")
                a == ColumnSum(g, "amount")
            IN  [pledge_date |-> PeriodToTimestamp(ps[k]),
                 contribution_amount |-> c,
                 amount |-> a,
                 fulfillment_rate |-> MonthlyRate(a, c)]]

\* 5. df['year'] = df['pledge_date'].dt.year, written into the frame passed in
DeriveYearFromPaymentDate(rows) ==
    [i \in 1..Len(rows) |-> [rows[i] EXCEPT !.year = DtYear(rows[i].date)]]
DeriveYearColumn(rows) ==
    [i \in 1..Len(rows) |-> [rows[i] EXCEPT !.year = DtYear(rows[i].pledge_date)]]

YearData(rows) ==
    LET ys == Years(rows)
    IN  [k \in 1..Len(ys) |->
            [year |-> ys[k],
             contribution_amount |-> ColumnSum(YearGroup(rows, ys[k]), "contribution_amount")]]

\* The data each figure plots, and the frame as the function leaves it.
CreateVisualizations(rows) ==
    LET trend == PledgesOverTime(rows)
        dist == [i \in 1..Len(rows) |-> rows[i].contribution_amount]
        monthly == MonthlyData(rows)
        rate == [k \in 1..Len(monthly) |->
                    [pledge_date |-> monthly[k].pledge_date,
                     fulfillment_rate |-> monthly[k].fulfillment_rate]]
        scatter == [i \in 1..Len(rows) |->
                       [contribution_amount |-> rows[i].contribution_amount,
                        amount |-> rows[i].amount,
                        pledge_id |-> rows[i].pledge_id]]
        after == DeriveYearColumn(rows)
    IN  [pledge_trend |-> trend,
         pledge_distribution |-> dist,
         fulfillment_rate |-> rate,
         pledge_payment_scatter |-> scatter,
         by_year |-> YearData(after),
         subplots |-> <<trend, dist, rate, scatter>>,
         table |-> after]

(***************************************************************************)
(* app.py: update_graphs and process_llm_input                              *)
(***************************************************************************)
\* df[df['year'].isin(selected_years)]: the rows whose year cell is one of the
\* values handed in.  The values are year cells, <<y>> or <<>> for NaN; isin
\* on the float year column finds a NaN cell in a list that holds NaN.
FilterFromFirstSelected(rows, years) ==
    SelectSeq(rows, LAMBDA r :
        r.year # NA /\ \E y \in years : y # NA /\ r.year[1] >= y[1])
FilterByYears(rows, years) ==
    SelectSeq(rows, LAMBDA r : r.year \in years)

\* The zero-guarded, rounded fulfillment rate of one year of the summary
SummaryRateUnguarded(payment, contribution) ==
    Round2(Times100(FloatDiv(payment, contribution)))
SummaryRate(payment, contribution) ==
    Round2(IF contribution # 0 THEN Times100(FloatDiv(payment, contribution)) ELSE Zero)

PledgeSummary(rows) ==
    LET ys == Years(rows)
    IN  [k \in 1..Len(ys) |->
            LET g == YearGroup(rows, ys[k])
                c == ColumnSum(g, "contribution_amount")
                a == ColumnSum(g, "amount")
            IN  [year |-> ys[k],
                 num_pledges |-> Len(g),
                 total_contribution_amount |-> c,
                 average_contribution_amount |-> ColumnMean(g, "contribution_amount"),
                 total_payment_amount |-> a,
                 fulfillment_rate |-> SummaryRate(a, c)]]

ProcessLlmInput(n_clicks, user_input) ==
    IF n_clicks > 0
    THEN "You asked: " \o user_input \o ".  (LLM integration pending)"
    ELSE ""

\* The dropdown's options and default value, sorted(df['year'].unique()): the
\* distinct cells of the year column, the NaN of a row without a pledge date
\* among them (<<>>), each other entry the year as a number (2023 or 2023.0).
YearOptions(rows) == {rows[n].year : n \in 1..Len(rows)}

\* The callbacks Dash calls once each, as separate requests, when the page is
\* first served.
InitialRequests == {"update_graphs", "process_llm_input"}

(***************************************************************************)
(* Inputs: the two JSON documents                                           *)
(***************************************************************************)
SeqsUpTo(S, n) == UNION {[1..k -> S] : k \in 0..n}

PledgeRecord(id, created, starts, ended, contribution) ==
    [pledge_id |-> id, pledge_created_at |-> created, pledge_starts_at |-> starts,
     pledge_ended_at |-> ended, contribution_amount |-> contribution]

\* Loader inputs, rows varied: null / numeric / string identifiers, null,
\* valid and unparsable creation dates.
LoadPledgeRows ==
    {PledgeRecord(id, created, Absent, Absent, Some(3)) :
        id \in {JNull, JInt("1"), JStr("a")},
        created \in {JNull, JStr("2023-01-15"), JStr("not-a-date")}}

\* Loader inputs, columns varied: one record with any subset of the three date keys.
LoadColumnDocs ==
    {<<PledgeRecord(JStr("a"), created, starts, ended, Some(3))>> :
        created \in {Absent, JNull, JStr("2023-01-15"), JStr("not-a-date")},
        starts \in {Absent, JStr("2022-12-10"), JStr("not-a-date")},
        ended \in {Absent, JStr("2023-02-01")}}

LoadPaymentRows ==
    {[pledge_id |-> id, date |-> date, amount |-> Some(2)] :
        id \in {JNull, JInt("1"), JStr("a")},
        date \in {JStr("2023-03-05"), JStr("not-a-date")}}

\* Dashboard inputs: pledges dated in three months of two years, pledging 0 or
\* 3; two pledge identifiers, of which only "a" has payments (of 2 each).
AppPledgeRows ==
    {PledgeRecord(id, created, Absent, Absent, contribution) :
        id \in {JStr("a"), JStr("b")},
        created \in {JStr("2022-12-10"), JStr("2023-01-15"), JStr("2023-02-01")},
        contribution \in {Some(0), Some(3)}}

\* Dashboard inputs with a pledge whose creation date is null (the load keeps
\* it, its year NaN) beside two dated pledges, of one year or of two.
AppUndatedDocs ==
    {<<PledgeRecord(id, JNull, Absent, Absent, Some(3)), dated,
       PledgeRecord(JStr("b"), JStr("2022-12-10"), Absent, Absent, Some(3))>> :
        id \in {JStr("a"), JStr("b")},
        dated \in AppPledgeRows}

AppPaymentRows ==
    {[pledge_id |-> JStr("a"), date |-> JStr("2023-03-05"), amount |-> Some(2)]}

Questions == {"total pledged in 2023"}

Blank ==
    /\ pc = "start"
    /\ df = <<>>
    /\ load_error = ""
    /\ pledge_date_column = NoColumn
    /\ selected = {}
    /\ trend_graph = <<>>
    /\ distribution_graph = <<>>
    /\ rate_graph = <<>>
    /\ scatter_graph = <<>>
    /\ by_year_graph = <<>>
    /\ combined_graph = <<>>
    /\ rowData = <<>>
    /\ llm_output = ""
    /\ pending = {}

InitLoad ==
    /\ pledges_json \in SeqsUpTo(LoadPledgeRows, MaxPledges) \cup LoadColumnDocs
    /\ payments_json \in SeqsUpTo(LoadPaymentRows, MaxPayments)
    /\ Blank

Init ==
    /\ pledges_json \in SeqsUpTo(AppPledgeRows, MaxPledges) \cup AppUndatedDocs
    /\ payments_json \in SeqsUpTo(AppPaymentRows, MaxPayments)
    /\ Blank

(***************************************************************************)
(* Actions                                                                  *)
(***************************************************************************)
\* df = load_and_preprocess_data(pledges_file, payments_file)
Load ==
    /\ pc = "start"
    /\ \E res \in {LoadResult(pledges_json, payments_json)} :
          /\ pc' = IF res.ok THEN "loaded" ELSE "failed"
          /\ df' = res.table
          /\ load_error' = res.error
          /\ pledge_date_column' = res.column
    /\ UNCHANGED <<inputs, display, pending>>

\* app.py start-up: figures = create_visualizations(df), then the layout with
\* the six figures, the dropdown's default value and an empty grid.
Startup ==
    /\ pc = "loaded"
    /\ \E cv \in {CreateVisualizations(df)} :
          /\ df' = cv.table
          /\ trend_graph' = cv.pledge_trend
          /\ distribution_graph' = cv.pledge_distribution
          /\ rate_graph' = cv.fulfillment_rate
          /\ scatter_graph' = cv.pledge_payment_scatter
          /\ by_year_graph' = cv.by_year
          /\ combined_graph' = cv.subplots
          /\ selected' = YearOptions(cv.table)
    /\ rowData' = <<>>
    /\ llm_output' = ""
    /\ pending' = InitialRequests
    /\ pc' = "serving"
    /\ UNCHANGED <<inputs, load_error, pledge_date_column>>

\* The list update_graphs receives for a dropdown value: the value itself,
\* except that a NaN entry, which the page carries as JSON null, may come back
\* as None, and None is equal to no cell of the year column.
Received(years) == {years, years \ {NA}}

\* update_graphs, the outputs written: the figures of the filtered copy and
\* the summary of the copy as create_visualizations left it.
Render(filtered) ==
    \E cv \in {CreateVisualizations(filtered)} :
        /\ trend_graph' = cv.pledge_trend
        /\ distribution_graph' = cv.pledge_distribution
        /\ rate_graph' = cv.fulfillment_rate
        /\ scatter_graph' = cv.pledge_payment_scatter
        /\ by_year_graph' = cv.by_year
        /\ rowData' = PledgeSummary(cv.table)

\* update_graphs served for the dropdown value years.  When the filtered copy
\* holds no dated row (no year selected) the monthly frames are empty, and the
\* callback either writes the outputs computed from them or raises before
\* returning (fig['data'][0] on a figure that plotly built with no trace),
\* which leaves the outputs as they were.
UpdateGraphs(years) ==
    /\ \E selected_years \in Received(years) :
       \E filtered \in {FilterByYears(df, selected_years)} :
          \/ Render(filtered)
          \/ /\ Periods(filtered) = <<>>
             /\ UNCHANGED <<trend_graph, distribution_graph, rate_graph,
                            scatter_graph, by_year_graph, rowData>>
    /\ UNCHANGED <<combined_graph, df>>

\* The page load's update_graphs request, with the dropdown's default value.
InitialUpdateGraphs ==
    /\ pc = "serving"
    /\ "update_graphs" \in pending
    /\ UpdateGraphs(selected)
    /\ pending' = pending \ {"update_graphs"}
    /\ UNCHANGED <<inputs, pc, load_error, pledge_date_column, selected, llm_output>>

\* The page load's process_llm_input request: n_clicks = 0, no input value.
InitialProcessLlmInput ==
    /\ pc = "serving"
    /\ "process_llm_input" \in pending
    /\ llm_output' = ProcessLlmInput(0, "None")
    /\ pending' = pending \ {"process_llm_input"}
    /\ UNCHANGED <<inputs, pc, df, load_error, pledge_date_column, selected,
                   trend_graph, distribution_graph, rate_graph, scatter_graph,
                   by_year_graph, combined_graph, rowData>>

\* The user changes the year dropdown to any set of its options, the empty
\* one included: update_graphs(selected_years)
YearChange ==
    /\ pc = "serving"
    /\ "update_graphs" \notin pending
    /\ \E years \in SUBSET YearOptions(df) :
          /\ selected' = years
          /\ UpdateGraphs(years)
    /\ UNCHANGED <<inputs, pc, load_error, pledge_date_column, llm_output, pending>>

\* The user presses Submit: process_llm_input(n_clicks, user_input)
Submit ==
    /\ pc = "serving"
    /\ "process_llm_input" \notin pending
    /\ \E n_clicks \in {1, 2}, user_input \in Questions :
          llm_output' = ProcessLlmInput(n_clicks, user_input)
    /\ UNCHANGED <<inputs, pc, df, load_error, pledge_date_column, selected,
                   trend_graph, distribution_graph, rate_graph, scatter_graph,
                   by_year_graph, combined_graph, rowData, pending>>

\* The dashboard process (app.py)
Next == Load \/ Startup \/ InitialUpdateGraphs \/ InitialProcessLlmInput
           \/ YearChange \/ Submit
Spec == Init /\ [][Next]_vars

\* The loader run on its own (data_processing.py as a script)
NextLoad == Load
SpecLoad == InitLoad /\ [][NextLoad]_vars

(***************************************************************************)
(* Properties of the loader (checked under SpecLoad)                        *)
(***************************************************************************)
Count(seq, r) == Cardinality({n \in 1..Len(seq) : seq[n] = r})

HasKey(col) == \E i \in 1..Len(pledges_json) : pledges_json[i][col] # Absent

\* C2: after a successful load the joined table holds, for every cleaned pledge
\* row, one row per payment row with the same normalised pledge_id, or one row
\* with missing payment fields when no payment matches, and nothing else; so
\* its pledge_ids are exactly the non-null pledge_ids of the pledge input.
C2_LeftJoinComplete ==
    pc = "loaded" =>
    \A P \in {CleanPledges(pledges_json, pledge_date_column)}, Q \in {CleanPayments(payments_json)} :
        /\ \A i \in 1..Len(P) :
              LET same == Cardinality({i2 \in 1..Len(P) : P[i2] = P[i]})
                  m == {j \in 1..Len(Q) : Q[j].pledge_id = P[i].pledge_id}
              IN  IF m = {}
                  THEN /\ Count(df, JoinRow(P[i], NA, NA)) = same
                       /\ \A n \in 1..Len(df) :
                             df[n].pledge_id = P[i].pledge_id => df[n].amount = NA /\ df[n].date = NA
                  ELSE \A j \in m :
                          Count(df, JoinRow(P[i], Q[j].date, Q[j].amount)) =
                              same * Cardinality({j2 \in m : Q[j2] = Q[j]})
        /\ Len(df) = SumSeq([i \in 1..Len(P) |->
                         LET k == Cardinality({j \in 1..Len(Q) : Q[j].pledge_id = P[i].pledge_id})
                         IN  IF k = 0 THEN 1 ELSE k])
        /\ {df[n].pledge_id : n \in 1..Len(df)} = {P[i].pledge_id : i \in 1..Len(P)}
        /\ \A j \in 1..Len(Q) :
              (\A i \in 1..Len(P) : P[i].pledge_id # Q[j].pledge_id)
                  => \A n \in 1..Len(df) : df[n].pledge_id # Q[j].pledge_id

\* A pledge matched by two payments beside a pledge matched by none.
C2_Witness ==
    /\ pc = "loaded"
    /\ \E n1, n2 \in 1..Len(df) :
          /\ n1 # n2
          /\ df[n1].pledge_id = df[n2].pledge_id
          /\ df[n1].amount # NA /\ df[n2].amount # NA
    /\ \E n \in 1..Len(df) : df[n].amount = NA

\* C3 as stated: every row of the joined table has a non-null pledge_id and a
\* non-null year.
C3_YearNeverNull ==
    pc = "loaded" => \A n \in 1..Len(df) : df[n].year # NA

\* C3 amended: every row of the joined table comes from a pledge record with a
\* non-null pledge_id; its year is the calendar year of its pledge_date, and is
\* missing exactly when the pledge's date value is null or missing.
C3_YearFollowsPledgeDate ==
    pc = "loaded" =>
    \A n \in 1..Len(df) :
        /\ \E i \in 1..Len(pledges_json) :
              /\ pledges_json[i].pledge_id[1] # "null"
              /\ df[n].pledge_id = AsTypeStr(pledges_json[i].pledge_id, IdDtype(pledges_json))
              /\ (df[n].pledge_date = NA) = Missing(pledges_json[i][pledge_date_column])
        /\ (df[n].year = NA) = (df[n].pledge_date = NA)
        /\ df[n].pledge_date # NA => df[n].year = Some(df[n].pledge_date[1].year)

\* A joined table with a dated pledge and a pledge whose date is null.
C3_Witness ==
    /\ pc = "loaded"
    /\ \E n \in 1..Len(df) : df[n].year = NA
    /\ \E n \in 1..Len(df) : df[n].year = Some(2023)

\* C8: the pledge date column is the creation date if present, else the start
\* date, else the end date, and pledge_date holds that column's values; with
\* none of the three the load fails with the error raised and no table.
C8_DateColumnPriority ==
    pc # "start" =>
        /\ HasKey("pledge_created_at") => pledge_date_column = "pledge_created_at"
        /\ ~HasKey("pledge_created_at") /\ HasKey("pledge_starts_at")
              => pledge_date_column = "pledge_starts_at"
        /\ ~HasKey("pledge_created_at") /\ ~HasKey("pledge_starts_at") /\ HasKey("pledge_ended_at")
              => pledge_date_column = "pledge_ended_at"
        /\ ~HasKey("pledge_created_at") /\ ~HasKey("pledge_starts_at") /\ ~HasKey("pledge_ended_at")
              => /\ pc = "failed"
                 /\ df = <<>>
                 /\ load_error = "ValueError: No suitable pledge date column found"
        /\ pc = "loaded" =>
              \A n \in 1..Len(df) : \E i \in 1..Len(pledges_json) :
                  /\ pledges_json[i].pledge_id[1] # "null"
                  /\ df[n].pledge_date = DatetimeCell(pledges_json[i][pledge_date_column])

\* A load that fell back to the start date although an end date was there too.
C8_Witness ==
    /\ pc = "loaded"
    /\ ~HasKey("pledge_created_at") /\ HasKey("pledge_starts_at") /\ HasKey("pledge_ended_at")
    /\ \E n \in 1..Len(df) : df[n].pledge_date = Some(Calendar["2022-12-10"])

\* C9: an unparsable pledge or payment date does not make the load fail (with a
\* date column and payments present nothing else can), and every pledge record
\* with an identifier is kept, its unparsable date missing.
C9_UnparsableDateTolerated ==
    pc # "start" /\ payments_json # <<>>
    /\ (HasKey("pledge_created_at") \/ HasKey("pledge_starts_at") \/ HasKey("pledge_ended_at"))
    =>  /\ pc = "loaded"
        /\ \A i \in 1..Len(pledges_json) :
              pledges_json[i].pledge_id[1] # "null" =>
                  \E n \in 1..Len(df) :
                      /\ df[n].pledge_id = AsTypeStr(pledges_json[i].pledge_id, IdDtype(pledges_json))
                      /\ df[n].pledge_date =
                            DatetimeCell(pledges_json[i][pledge_date_column])

(***************************************************************************)
(* Properties of the dashboard (checked under Spec)                         *)
(***************************************************************************)
Up == pc = "serving"

\* update_graphs has been served at least once
Rendered == pc = "serving" /\ "update_graphs" \notin pending

\* C1: once update_graphs has run, for a selection of years every displayed
\* chart - trend, distribution, fulfillment rate, scatter, by-year and the
\* combined 2x2 grid - and the table rows are those computed from the joined
\* table filtered by the selected years.
C1_AllChartsFollowSelection ==
    Rendered /\ selected # {} /\ NA \notin selected =>
    \A cv \in {CreateVisualizations(FilterByYears(df, selected))} :
        /\ trend_graph = cv.pledge_trend
        /\ distribution_graph = cv.pledge_distribution
        /\ rate_graph = cv.fulfillment_rate
        /\ scatter_graph = cv.pledge_payment_scatter
        /\ by_year_graph = cv.by_year
        /\ combined_graph = cv.subplots
        /\ rowData = PledgeSummary(cv.table)

\* C4: each point of the displayed monthly fulfillment series is 0 when the
\* month's summed contribution_amount is 0, and 100 * sum(amount) /
\* sum(contribution_amount) otherwise.
C4_MonthlyRateZeroSafe ==
    Up =>
    \A k \in 1..Len(rate_graph) :
        \A g \in {SelectSeq(df, LAMBDA r :
                     /\ r.pledge_date # NA
                     /\ r.pledge_date[1].year = rate_graph[k].pledge_date.year
                     /\ r.pledge_date[1].month = rate_graph[k].pledge_date.month)} :
            rate_graph[k].fulfillment_rate =
                IF ColumnSum(g, "contribution_amount") = 0 THEN Zero
                ELSE Frac(100 * ColumnSum(g, "amount"), ColumnSum(g, "contribution_amount"))

\* C5: every row of the summary table update_graphs produced is the row of one
\* year of the joined table, one row per selected year when a year is
\* selected; its fulfillment_rate is 0 when the year's summed
\* contribution_amount is 0 and 100 * sum(amount) / sum(contribution_amount)
\* rounded to 2 decimals otherwise.
C5_SummaryRateZeroSafe ==
    Rendered =>
        /\ \A k \in 1..Len(rowData) : Some(rowData[k].year) \in YearOptions(df)
        /\ \A k, k2 \in 1..Len(rowData) : rowData[k].year = rowData[k2].year => k = k2
        /\ selected \ {NA} # {} =>
              {Some(rowData[k].year) : k \in 1..Len(rowData)} = selected \ {NA}
        /\ \A k \in 1..Len(rowData) :
              \A g \in {SelectSeq(df, LAMBDA r : r.year = Some(rowData[k].year))} :
              \A c \in {ColumnSum(g, "contribution_amount")}, a \in {ColumnSum(g, "amount")} :
                  /\ rowData[k].total_contribution_amount = c
                  /\ rowData[k].fulfillment_rate =
                        IF c = 0 THEN Zero
                        ELSE Frac(RoundHalfEven(100 * 100 * a, c), 100)

\* A year with payments but a contribution sum of 0, beside a year whose rate
\* needs rounding (2 paid of 3 pledged: 66.67).
C5_Witness ==
    /\ Rendered
    /\ \E k \in 1..Len(rowData) :
          /\ rowData[k].total_contribution_amount = 0
          /\ rowData[k].total_payment_amount > 0
          /\ rowData[k].fulfillment_rate = Zero
    /\ \E k \in 1..Len(rowData) : rowData[k].fulfillment_rate = <<"num", 6667, 100>>

\* C6: in every row of the summary table the pledge count is the number of
\* pledge records of that year and the total is the sum of their
\* contribution_amount, each pledge record counted once.
C6_SummaryCountsPledgesOnce ==
    Rendered =>
    \A P \in {CleanPledges(pledges_json, pledge_date_column)} :
    \A k \in 1..Len(rowData) :
        \A g \in {SelectSeq(P, LAMBDA r : r.year = Some(rowData[k].year))} :
            /\ rowData[k].num_pledges = Len(g)
            /\ rowData[k].total_contribution_amount = ColumnSum(g, "contribution_amount")

\* C7: for every subset S of the joined table's years, the empty one
\* included, the monthly and yearly aggregates of the table filtered to S
\* equal the aggregates of the whole table with the buckets of years outside
\* S discarded; and what update_graphs displays when a year is selected -
\* monthly trend, monthly fulfillment rate, by-year totals, yearly summary -
\* is the whole table's aggregates so discarded.
C7_AggregationCommutesWithFilter ==
    /\ pc = "loaded" =>
        \A S \in SUBSET YearOptions(df) :
        \A part \in {FilterByYears(df, S)} :
            /\ MonthlyData(part) =
                  SelectSeq(MonthlyData(df), LAMBDA b : Some(b.pledge_date.year) \in S)
            /\ PledgesOverTime(part) =
                  SelectSeq(PledgesOverTime(df), LAMBDA b : Some(b.pledge_date.year) \in S)
            /\ YearData(part) = SelectSeq(YearData(df), LAMBDA b : Some(b.year) \in S)
            /\ PledgeSummary(part) = SelectSeq(PledgeSummary(df), LAMBDA b : Some(b.year) \in S)
    /\ Rendered /\ selected \ {NA} # {} =>
        \A full \in {CreateVisualizations(df)} :
            /\ trend_graph =
                  SelectSeq(full.pledge_trend, LAMBDA b : Some(b.pledge_date.year) \in selected)
            /\ rate_graph =
                  SelectSeq(full.fulfillment_rate, LAMBDA b : Some(b.pledge_date.year) \in selected)
            /\ by_year_graph = SelectSeq(full.by_year, LAMBDA b : Some(b.year) \in selected)
            /\ rowData = SelectSeq(PledgeSummary(df), LAMBDA b : Some(b.year) \in selected)

\* A proper selection of a table with three year cells: one year shown, the
\* other year filtered out, the rows without a year selected or not.
C7_Witness ==
    /\ Rendered
    /\ NA \in YearOptions(df)
    /\ selected \ {NA} # {}
    /\ YearOptions(df) \ (selected \cup {NA}) # {}
    /\ rowData # <<>>
    /\ rate_graph # <<>>

\* C10: after start-up and after any year-filter and submit events the shared
\* joined table is the table the load returned, rows and column values alike.
C10_JoinedTableUnchanged ==
    Up => df = LoadResult(pledges_json, payments_json).table

\* The table after start-up, both page-load callbacks, a narrowed selection
\* and a submitted question.
C10_Witness ==
    /\ pc = "serving"
    /\ pending = {}
    /\ Len(df) > 1
    /\ selected # YearOptions(df)
    /\ llm_output # ""

====
